---- MODULE Spec2Model ----
(***************************************************************************)
(* nix-user-chroot (src/main.rs): the program as a sequential state        *)
(* machine.  One action per statement of main / run_chroot that performs   *)
(* a system call; each call's outcome is chosen by the environment.  A     *)
(* failing call that the code unwraps panics: the panic unwinds, dropping  *)
(* the WrapUmount guards that are alive, inside the same action.           *)
(***************************************************************************)
EXTENDS Integers, FiniteSets, Sequences, TLC

VARIABLES
    pc,         \* position in main / run_chroot
    argc,       \* args.len() of env::args()
    exitCode,   \* exit status of the process, NoCode while it has none
    stderr,     \* diagnostics written to standard error
    unshared,   \* unshare(CLONE_NEWNS | CLONE_NEWUSER) has succeeded
    procWrites, \* writes to /proc/self/{setgroups,uid_map,gid_map}, in order
    guard,      \* the two WrapUmount values: tempdir (l.126) and tmp (l.204)
    mounted,    \* the guarded paths and store paths that are mount points
    ops,        \* mount / umount / pivot_root calls attempted so far
    cwd,        \* the working directory
    cwdSaved,   \* env::current_dir() was captured (l.129)
    oldRoot,    \* top-level entries of the original root (later at /nix)
    newRoot,    \* top-level entries of the tmpfs that becomes /
    statted,    \* old-root entries whose metadata() was taken
    bindFailed, \* bind_mount printed "failed to bind mount" (l.62)
    todo,       \* entries the running loop has not yet visited
    outer,      \* /nix/nix/store existed at l.203
    D,          \* entries of the supplied store directory (nixdir)
    O,          \* entries of the outer store, stashed on tmp
    store,      \* entries under /nix/store
    storeRO     \* the mount at /nix/store is read-only

vars == << pc, argc, exitCode, stderr, unshared, procWrites, guard, mounted,
           ops, cwd, cwdSaved, oldRoot, newRoot, statted, bindFailed, todo,
           outer, D, O, store, storeRO >>

(***************************************************************************)
(* Bounds of the model.                                                    *)
(***************************************************************************)
MaxArgs == 3          \* env::args() has 0 .. MaxArgs elements
MaxStoreEntries == 3  \* entries of D plus entries of O

RootNames == {"nix", "bin"}
StoreNames == {"p", "q"}
LinkTargets == {"ta", "tb"}

(***************************************************************************)
(* Exit statuses.                                                          *)
(***************************************************************************)
NoCode == -1
ExitFailure == 1      \* process::exit(1)
PanicExit == 101      \* a panic that unwinds out of main
AbortExit == 134      \* a panic while panicking: abort()

Kinds == {"dir", "file", "symlink", "other"}
Absent == [kind |-> "absent", target |-> "-"]
Ent(k, t) == [kind |-> k, target |-> t]

\* What a directory listing can hold under one name.
EntriesOver(targets) ==
    {Absent} \cup {Ent(k, "-") : k \in Kinds \ {"symlink"}}
             \cup {Ent("symlink", t) : t \in targets}

Present(dir) == {n \in DOMAIN dir : dir[n].kind # "absent"}

\* A new-root entry: its kind, whether a source is bind-mounted on it, its
\* link target, and who made it ("pivot": l.189, "mirror": l.71-103).
NoRootEnt == [kind |-> "absent", bind |-> FALSE, target |-> "-", by |-> "-"]

\* An entry under /nix/store: its kind, the store ("D" or "O") and the name of
\* the entry whose content it shows, its link target.
NoStoreEnt == [kind |-> "absent", from |-> "-", of |-> "-", target |-> "-"]

GuardNames == {"tempdir", "tmp"}
NoGuard == [state |-> "none", defused |-> FALSE, umounts |-> 0]

\* WrapUmount::new (l.44-49)
WrapUmountNew == [state |-> "live", defused |-> FALSE, umounts |-> 0]

\* A defuse that leaves the flag alone.
DefuseNoop(g) == g

\* WrapUmount::defuse (l.40-42)
Defuse(g) == [g EXCEPT !.defused = TRUE]

\* Drop for WrapUmount, ignoring the flag.
DropAlwaysUmounts(g) == TRUE

\* Drop for WrapUmount without the umount.
DropNeverUmounts(g) == FALSE

\* Drop for WrapUmount (l.25): the guard umounts unless it was defused.
DropUmounts(g) == ~g.defused

\* self.dir.path() of each guard
GuardPath(name) == IF name = "tempdir" THEN "rootdir" ELSE "tmp"

Op(o, t) == [op |-> o, target |-> t, unshared |-> unshared,
             onMount |-> t \in mounted]

Running == exitCode = NoCode /\ pc # "replaced"

(***************************************************************************)
(* Init: the process has been started with argc arguments.                 *)
(***************************************************************************)
Init ==
    /\ pc = "main"
    /\ argc \in 0..MaxArgs
    /\ exitCode = NoCode
    /\ stderr = {}
    /\ unshared = FALSE
    /\ procWrites = << >>
    /\ guard = [g \in GuardNames |-> NoGuard]
    /\ mounted = {}
    /\ ops = {}
    /\ cwd = "start"
    /\ cwdSaved = FALSE
    /\ oldRoot = [n \in RootNames |-> Absent]
    /\ newRoot = [n \in RootNames |-> NoRootEnt]
    /\ statted = {}
    /\ bindFailed = FALSE
    /\ todo = {}
    /\ outer = FALSE
    /\ D = [n \in StoreNames |-> Absent]
    /\ O = [n \in StoreNames |-> Absent]
    /\ store = [n \in StoreNames |-> NoStoreEnt]
    /\ storeRO = FALSE


fsVars == << oldRoot, newRoot, statted, bindFailed, todo, outer, D, O, store,
             storeRO >>
idVars == << unshared, procWrites, cwd, cwdSaved >>

(***************************************************************************)
(* Dropping a guard (l.23-29).  The umount is attempted when DropUmounts   *)
(* says so; it fails on a path that is no mount point and may fail on one  *)
(* that is.  umount(..).unwrap() failing panics: exit status PanicExit in  *)
(* normal flow, abort when the drop runs during the unwinding of a panic.  *)
(***************************************************************************)
DropGuard(g, ops0, err0, unwinding) ==
    IF DropUmounts(guard[g])
    THEN /\ ops' = ops0 \cup {Op("umount", GuardPath(g))}
         /\ guard' = [guard EXCEPT ![g].state = "dropped",
                                   ![g].umounts = @ + 1]
         /\ \E ok \in (IF GuardPath(g) \in mounted THEN BOOLEAN ELSE {FALSE}) :
               IF ok
               THEN /\ mounted' = mounted \ {GuardPath(g)}
                    /\ stderr' = err0
                    /\ exitCode' = IF unwinding THEN PanicExit ELSE NoCode
               ELSE /\ mounted' = mounted
                    /\ stderr' = err0 \cup {"umount failed"}
                    /\ exitCode' = IF unwinding THEN AbortExit ELSE PanicExit
    ELSE /\ ops' = ops0
         /\ guard' = [guard EXCEPT ![g].state = "dropped"]
         /\ mounted' = mounted
         /\ stderr' = err0
         /\ exitCode' = IF unwinding THEN PanicExit ELSE NoCode

\* A panic: the message goes to stderr, the stack unwinds and drops the guard
\* that is alive (tempdir is moved into drop() at l.202 before tmp is made at
\* l.204, so at most one is), and the process ends.
Panic(diag, ops0) ==
    LET live == {g \in GuardNames : guard[g].state = "live"} IN
    /\ pc' = "done"
    /\ IF live = {}
       THEN /\ exitCode' = PanicExit
            /\ stderr' = stderr \cup {diag}
            /\ ops' = ops0
            /\ UNCHANGED << guard, mounted >>
       ELSE DropGuard(CHOOSE g \in live : TRUE, ops0, stderr \cup {diag}, TRUE)

\* A call that changes nothing of the model when it succeeds and is unwrapped.
Call(at, next, diag) ==
    /\ pc = at
    /\ \E ok \in BOOLEAN :
          IF ok
          THEN /\ pc' = next
               /\ UNCHANGED << exitCode, stderr, guard, mounted, ops >>
          ELSE Panic(diag, ops)

\* mount(..).unwrap() of a mount that the model records only in ops.
MountCall(at, next, target) ==
    /\ pc = at
    /\ \E ok \in BOOLEAN :
          IF ok
          THEN /\ pc' = next
               /\ ops' = ops \cup {Op("mount", target)}
               /\ UNCHANGED << exitCode, stderr, guard, mounted >>
          ELSE Panic("mount failed", ops \cup {Op("mount", target)})

(***************************************************************************)
(* main (l.323-333)                                                        *)
(***************************************************************************)
\* A wrong threshold: one argument after the binary name is accepted.
UsageErrorOffByOne(n) == n < 2

\* l.325
UsageError(n) == n < 3

\* l.324-328: usage and exit(1); args[0] of an empty vector panics.
Main ==
    /\ pc = "main"
    /\ IF UsageError(argc)
       THEN /\ pc' = "done"
            /\ IF argc = 0
               THEN /\ exitCode' = PanicExit
                    /\ stderr' = stderr \cup {"index out of bounds"}
               ELSE /\ exitCode' = ExitFailure
                    /\ stderr' = stderr \cup {"usage"}
       ELSE /\ pc' = "canonicalize"
            /\ UNCHANGED << exitCode, stderr >>
    /\ UNCHANGED << argc, guard, mounted, ops, idVars, fsVars >>

\* l.329-332: fs::canonicalize(&args[1]) or panic, then &args[2] is indexed.
Canonicalize ==
    /\ pc = "canonicalize"
    /\ \E ok \in BOOLEAN :
          IF ok /\ argc >= 3
          THEN /\ pc' = "tempdir_new"
               /\ UNCHANGED << exitCode, stderr, guard, mounted, ops >>
          ELSE IF ok
          THEN Panic("index out of bounds", ops)
          ELSE Panic("failed to resolve nix directory", ops)
    /\ UNCHANGED << argc, idVars, fsVars >>

(***************************************************************************)
(* run_chroot (l.124-321): up to pivot_root                                *)
(***************************************************************************)
\* l.125-127: TempDir::new().expect(..); WrapUmount::new(tempdir)
TempdirNew ==
    /\ pc = "tempdir_new"
    /\ \E ok \in BOOLEAN :
          IF ok
          THEN /\ pc' = "current_dir"
               /\ guard' = [guard EXCEPT !["tempdir"] = WrapUmountNew]
               /\ UNCHANGED << exitCode, stderr, mounted, ops >>
          ELSE Panic("failed to create temporary directory", ops)
    /\ UNCHANGED << argc, idVars, fsVars >>

\* l.129
CurrentDir ==
    /\ pc = "current_dir"
    /\ \E ok \in BOOLEAN :
          IF ok
          THEN /\ pc' = "unshare"
               /\ cwdSaved' = TRUE
               /\ UNCHANGED << exitCode, stderr, guard, mounted, ops >>
          ELSE /\ Panic("cannot get current working directory", ops)
               /\ UNCHANGED cwdSaved
    /\ UNCHANGED << argc, unshared, procWrites, cwd, fsVars >>

\* l.131-135: getuid, getgid, unshare(..).expect("unshare failed")
Unshare ==
    /\ pc = "unshare"
    /\ \E ok \in BOOLEAN :
          IF ok
          THEN /\ pc' = "setgroups"
               /\ unshared' = TRUE
               /\ UNCHANGED << exitCode, stderr, guard, mounted, ops >>
          ELSE /\ Panic("unshare failed", ops)
               /\ UNCHANGED unshared
    /\ UNCHANGED << argc, procWrites, cwd, cwdSaved, fsVars >>

\* A setgroups write that is unwrapped like the map writes.
SetgroupsUnwraps ==
    /\ pc = "setgroups"
    /\ \E r \in {"open failed", "write failed", "written"} :
          /\ procWrites' = IF r = "open failed" THEN procWrites
                            ELSE Append(procWrites,
                                        [file |-> "setgroups", data |-> "deny",
                                         ok |-> r = "written"])
          /\ IF r = "written"
             THEN /\ pc' = "uid_map"
                  /\ UNCHANGED << exitCode, stderr, guard, mounted, ops >>
             ELSE Panic("setgroups failed", ops)
    /\ UNCHANGED << argc, unshared, cwd, cwdSaved, fsVars >>

\* l.136-138: if let Ok(file) = create(setgroups) { let _ = write("deny") }
Setgroups ==
    /\ pc = "setgroups"
    /\ pc' = "uid_map"
    /\ \E r \in {"open failed", "write failed", "written"} :
          procWrites' = IF r = "open failed" THEN procWrites
                        ELSE Append(procWrites,
                                    [file |-> "setgroups", data |-> "deny",
                                     ok |-> r = "written"])
    /\ UNCHANGED << argc, exitCode, stderr, guard, mounted, ops, unshared, cwd,
                    cwdSaved, fsVars >>

\* l.140-150: File::create(map).expect(..); write_all("{id} {id} 1").expect(..)
WriteMap(at, next, file, id) ==
    /\ pc = at
    /\ \E r \in {"open failed", "write failed", "written"} :
          /\ procWrites' = IF r = "open failed" THEN procWrites
                           ELSE Append(procWrites,
                                       [file |-> file, data |-> << id, id, 1 >>,
                                        ok |-> r = "written"])
          /\ IF r = "written"
             THEN /\ pc' = next
                  /\ UNCHANGED << exitCode, stderr, guard, mounted, ops >>
             ELSE Panic(IF r = "open failed" THEN "failed to open map"
                        ELSE "failed to write map", ops)
    /\ UNCHANGED << argc, unshared, cwd, cwdSaved, fsVars >>

\* The uid map written with the gid.
UidMapWrongId == WriteMap("uid_map", "gid_map", "uid_map", "gid")

UidMap == WriteMap("uid_map", "gid_map", "uid_map", "uid")
GidMap == WriteMap("gid_map", "bind_root", "gid_map", "gid")

\* l.155-162: mount("/", "/", MS_BIND | MS_REC).unwrap()
BindRoot ==
    /\ MountCall("bind_root", "private_root", "/")
    /\ UNCHANGED << argc, idVars, fsVars >>

\* l.164-171: mount(none, "/", MS_PRIVATE | MS_REC).unwrap()
PrivateRoot ==
    /\ MountCall("private_root", "mount_tmpfs", "/")
    /\ UNCHANGED << argc, idVars, fsVars >>

\* l.173-180: mount(none, rootdir, tmpfs).unwrap()
MountTmpfs ==
    /\ pc = "mount_tmpfs"
    /\ \E ok \in BOOLEAN :
          IF ok
          THEN /\ pc' = "set_permissions"
               /\ ops' = ops \cup {Op("mount", "rootdir")}
               /\ mounted' = mounted \cup {"rootdir"}
               /\ UNCHANGED << exitCode, stderr, guard >>
          ELSE Panic("mount failed", ops \cup {Op("mount", "rootdir")})
    /\ UNCHANGED << argc, idVars, fsVars >>

\* l.182
SetPermissions ==
    /\ Call("set_permissions", "mkdir_nix", "set_permissions failed")
    /\ UNCHANGED << argc, idVars, fsVars >>

\* l.188-189: fs::create_dir(rootdir.join("nix")).unwrap()
MkdirNix ==
    /\ pc = "mkdir_nix"
    /\ \E ok \in BOOLEAN :
          IF ok
          THEN /\ pc' = "pivot_root"
               /\ newRoot' = [newRoot EXCEPT !["nix"] =
                                [kind |-> "dir", bind |-> FALSE, target |-> "-",
                                 by |-> "pivot"]]
               /\ UNCHANGED << exitCode, stderr, guard, mounted, ops >>
          ELSE /\ Panic("create_dir failed", ops)
               /\ UNCHANGED newRoot
    /\ UNCHANGED << argc, idVars, oldRoot, statted, bindFailed, todo, outer, D,
                    O, store, storeRO >>

\* l.191: pivot_root(rootdir, rootdir/nix).unwrap().  The tmpfs becomes "/",
\* the old root moves to /nix; rootdir names no mount point any more.
PivotRoot ==
    /\ pc = "pivot_root"
    /\ \E ok \in BOOLEAN :
          IF ok
          THEN /\ pc' = "defuse"
               /\ ops' = ops \cup {Op("pivot_root", "rootdir")}
               /\ mounted' = (mounted \ {"rootdir"}) \cup {"/nix"}
               /\ UNCHANGED << exitCode, stderr, guard >>
          ELSE Panic("pivot_root failed", ops \cup {Op("pivot_root", "rootdir")})
    /\ UNCHANGED << argc, idVars, fsVars >>

\* l.192: tempdir.defuse()
DefuseTempdir ==
    /\ pc = "defuse"
    /\ pc' = "chdir_root"
    /\ guard' = [guard EXCEPT !["tempdir"] = Defuse(@)]
    /\ UNCHANGED << argc, exitCode, stderr, mounted, ops, idVars, fsVars >>

\* l.193: env::set_current_dir("/").expect(..)
ChdirRoot ==
    /\ pc = "chdir_root"
    /\ \E ok \in BOOLEAN :
          IF ok
          THEN /\ pc' = "read_dir"
               /\ cwd' = "/"
               /\ UNCHANGED << exitCode, stderr, guard, mounted, ops >>
          ELSE /\ Panic("cannot change directory to /", ops)
               /\ UNCHANGED cwd
    /\ UNCHANGED << argc, unshared, procWrites, cwdSaved, fsVars >>

(***************************************************************************)
(* Tree mirroring (l.195-202, l.54-122)                                    *)
(***************************************************************************)
RootDirs == [RootNames -> EntriesOver(LinkTargets)]

\* l.197-198: fs::read_dir("/nix").expect(..): the old root's entries.
ReadDir ==
    /\ pc = "read_dir"
    /\ \E ok \in BOOLEAN :
          IF ok
          THEN /\ pc' = "mirror"
               /\ \E r \in RootDirs : oldRoot' = r /\ todo' = Present(r)
               /\ UNCHANGED << exitCode, stderr, guard, mounted, ops >>
          ELSE /\ Panic("failed to list /nix directory", ops)
               /\ UNCHANGED << oldRoot, todo >>
    /\ UNCHANGED << argc, idVars, newRoot, statted, bindFailed, outer, D, O,
                    store, storeRO >>

\* No entry is skipped.
SkipsNothing(name) == FALSE

\* l.108: do not bind mount an existing nix installation
IsSkipped(name) == name = "nix"

\* bind_mount_directory (l.71-81), bind_mount_file (l.83-89): the mount point
\* is created, then the entry is bind-mounted on it.  create_dir tolerates
\* AlreadyExists; File::create fails on a directory.  bind_mount (l.54-69)
\* prints a failed mount (l.62) and returns.
MirrorBind(e, k) ==
    LET exists == newRoot[e].kind # "absent"
        mustFail == k = "file" /\ newRoot[e].kind = "dir"
        made == IF exists THEN newRoot[e]
                ELSE [kind |-> k, bind |-> FALSE, target |-> "-",
                      by |-> "mirror"]
        op == Op("mount", "/" \o e)
    IN
    \E created \in (IF mustFail THEN {FALSE}
                    ELSE IF exists THEN {TRUE} ELSE BOOLEAN) :
       IF ~created
       THEN /\ Panic("failed to create", ops)
            /\ UNCHANGED << newRoot, bindFailed, todo >>
       ELSE \E ok \in (IF made.kind = k THEN BOOLEAN ELSE {FALSE}) :
               IF ok
               THEN /\ newRoot' = [newRoot EXCEPT ![e] =
                                    [made EXCEPT !.bind = TRUE,
                                                 !.by = "mirror"]]
                    /\ ops' = ops \cup {op}
                    /\ todo' = todo \ {e}
                    /\ UNCHANGED << pc, exitCode, stderr, guard, mounted,
                                    bindFailed >>
               ELSE /\ newRoot' = [newRoot EXCEPT ![e] = made]
                    /\ ops' = ops \cup {op}
                    /\ stderr' = stderr \cup {"failed to bind mount"}
                    /\ bindFailed' = TRUE
                    /\ todo' = todo \ {e}
                    /\ UNCHANGED << pc, exitCode, guard, mounted >>

\* mirror_symlink (l.91-103): read_link, then symlink at the same name.
MirrorSymlink(e) ==
    \E ok \in (IF newRoot[e].kind # "absent" THEN {FALSE} ELSE BOOLEAN) :
       IF ok
       THEN /\ newRoot' = [newRoot EXCEPT ![e] =
                            [kind |-> "symlink", bind |-> FALSE,
                             target |-> oldRoot[e].target, by |-> "mirror"]]
            /\ todo' = todo \ {e}
            /\ UNCHANGED << pc, exitCode, stderr, guard, mounted, ops,
                            bindFailed >>
       ELSE /\ Panic("failed to create symlink", ops)
            /\ UNCHANGED << newRoot, bindFailed, todo >>

\* bind_mount_direntry (l.105-122) on one entry of the listing.
BindMountDirentry(e) ==
    /\ pc = "mirror"
    /\ e \in todo
    /\ IF IsSkipped(e)
       THEN /\ todo' = todo \ {e}
            /\ UNCHANGED << pc, exitCode, stderr, guard, mounted, ops, newRoot,
                            statted, bindFailed >>
       ELSE \E stat \in BOOLEAN :
               IF ~stat
               THEN /\ Panic("cannot get stat", ops)
                    /\ UNCHANGED << newRoot, statted, bindFailed, todo >>
               ELSE /\ statted' = statted \cup {e}
                    /\ CASE oldRoot[e].kind \in {"dir", "file"} ->
                              MirrorBind(e, oldRoot[e].kind)
                         [] oldRoot[e].kind = "symlink" -> MirrorSymlink(e)
                         [] OTHER ->
                              /\ todo' = todo \ {e}
                              /\ UNCHANGED << pc, exitCode, stderr, guard,
                                              mounted, ops, newRoot,
                                              bindFailed >>
    /\ UNCHANGED << argc, idVars, oldRoot, outer, D, O, store, storeRO >>

\* l.199-201: for entry in dir { bind_mount_direntry(entry) }, in the order
\* read_dir yields the entries.
Mirror == \E e \in todo : BindMountDirentry(e)

\* l.202: drop(tempdir), once the loop has ended.
DropTempdir ==
    /\ pc = "mirror"
    /\ todo = {}
    /\ DropGuard("tempdir", ops, stderr, FALSE)
    /\ pc' = IF exitCode' = NoCode THEN "check_outer" ELSE "done"
    /\ UNCHANGED << argc, idVars, fsVars >>

\* l.203: PathBuf::from("/nix/nix/store").exists(); /nix/nix is the old
\* root's nix entry, which can hold a store when it is a directory or a link.
CheckOuter ==
    /\ pc = "check_outer"
    /\ \E b \in (IF oldRoot["nix"].kind \in {"dir", "symlink"} THEN BOOLEAN
                 ELSE {FALSE}) :
          /\ outer' = b
          /\ pc' = IF b THEN "tmp_new" ELSE "nix_tmpfs"
    /\ UNCHANGED << argc, exitCode, stderr, guard, mounted, ops, idVars,
                    oldRoot, newRoot, statted, bindFailed, todo, D, O, store,
                    storeRO >>

(***************************************************************************)
(* Store reconciliation, an outer store exists (l.204-293)                 *)
(***************************************************************************)
StoreDirs == [StoreNames -> EntriesOver(StoreNames)]

\* The end of the chain of symbolic links that starts at /nix/store/n, as the
\* kernel follows it: a name that is no link, or ELOOP.
RECURSIVE Terminal(_, _, _)
Terminal(st, n, fuel) ==
    IF st[n].kind # "symlink" THEN n
    ELSE IF fuel = 0 THEN "ELOOP"
    ELSE Terminal(st, st[n].target, fuel - 1)

\* The name is taken when an entry of that name is there, whatever it is.
ExistsNoFollow(st, n) == st[n].kind # "absent"

\* Path::exists (l.260): metadata() of the path, following symbolic links.
PathExists(st, n) ==
    LET t == Terminal(st, n, Cardinality(StoreNames)) IN
    t # "ELOOP" /\ st[t].kind # "absent"

\* l.204: WrapUmount::new(TempDir::new().unwrap())
TmpNew ==
    /\ pc = "tmp_new"
    /\ \E ok \in BOOLEAN :
          IF ok
          THEN /\ pc' = "bind_nixnix"
               /\ guard' = [guard EXCEPT !["tmp"] = WrapUmountNew]
               /\ UNCHANGED << exitCode, stderr, mounted, ops >>
          ELSE Panic("TempDir::new failed", ops)
    /\ UNCHANGED << argc, idVars, fsVars >>

\* l.205-212: mount("/nix/nix", "/nix", MS_BIND | MS_REC).unwrap()
BindNixNix ==
    /\ MountCall("bind_nixnix", "stash", "/nix")
    /\ UNCHANGED << argc, idVars, fsVars >>

\* l.213-220: mount("/nix/store", tmp.path(), MS_BIND | MS_REC).unwrap()
Stash ==
    /\ pc = "stash"
    /\ \E ok \in BOOLEAN :
          IF ok
          THEN /\ pc' = "store_tmpfs"
               /\ ops' = ops \cup {Op("mount", "tmp")}
               /\ mounted' = mounted \cup {"tmp"}
               /\ UNCHANGED << exitCode, stderr, guard >>
          ELSE Panic("mount failed", ops \cup {Op("mount", "tmp")})
    /\ UNCHANGED << argc, idVars, fsVars >>

\* l.221-228: mount(none, "/nix/store", tmpfs, "mode=0755").unwrap()
StoreTmpfs ==
    /\ pc = "store_tmpfs"
    /\ \E ok \in BOOLEAN :
          IF ok
          THEN /\ pc' = "read_nixdir"
               /\ ops' = ops \cup {Op("mount", "/nix/store")}
               /\ mounted' = mounted \cup {"/nix/store"}
               /\ UNCHANGED << exitCode, stderr, guard >>
          ELSE Panic("mount failed", ops \cup {Op("mount", "/nix/store")})
    /\ UNCHANGED << argc, idVars, fsVars >>

\* l.230: fs::read_dir(&nixdir).unwrap(): the supplied store's entries.
ReadNixdir ==
    /\ pc = "read_nixdir"
    /\ \E ok \in BOOLEAN :
          IF ok
          THEN /\ pc' = "pass1"
               /\ \E d \in StoreDirs :
                     /\ Cardinality(Present(d)) <= MaxStoreEntries
                     /\ D' = d
                     /\ todo' = Present(d)
               /\ UNCHANGED << exitCode, stderr, guard, mounted, ops >>
          ELSE /\ Panic("read_dir failed", ops)
               /\ UNCHANGED << D, todo >>
    /\ UNCHANGED << argc, idVars, oldRoot, newRoot, statted, bindFailed, outer,
                    O, store, storeRO >>

\* Where the placeholder of an entry lands in the store st: File::create
\* (l.239, l.268) and mount follow a link at the name, create_dir and symlink
\* do not.
PlaceAt(st, n, ent) ==
    IF ent.kind = "file" THEN Terminal(st, n, Cardinality(StoreNames)) ELSE n

\* Whether the placeholder can be made: create_dir (l.237, l.266) and symlink
\* (l.242, l.271) fail with EEXIST on a name that is taken, File::create
\* fails on a chain of links that loops.
CanCreate(st, n, ent) ==
    CASE ent.kind = "file" -> PlaceAt(st, n, ent) # "ELOOP"
      [] ent.kind \in {"dir", "symlink"} -> ~ExistsNoFollow(st, n)
      [] OTHER -> TRUE

\* The store after the placeholder was made and the entry mounted on it.
Placed(st, n, src, ent) ==
    IF ent.kind = "other" THEN st
    ELSE [st EXCEPT ![PlaceAt(st, n, ent)] =
            [kind |-> ent.kind, from |-> src, of |-> n, target |-> ent.target]]

\* l.236-253 and l.265-282: the placeholder for an entry of kind k is made at
\* /nix/store/n, and a directory or a file is bind-mounted on it.  create_dir
\* and symlink fail on a name that is taken; File::create follows a link at
\* the name and creates the file the link names; mount follows it as well.
\* Entries that are no directory, file or link get nothing.
Place(n, src, ent) ==
    LET at == PlaceAt(store, n, ent)
        canCreate == CanCreate(store, n, ent)
        op == Op("mount", "/nix/store/" \o n)
    IN
    IF ent.kind = "other"
    THEN /\ todo' = todo \ {n}
         /\ UNCHANGED << pc, exitCode, stderr, guard, mounted, ops, store >>
    ELSE
    \E r \in (IF canCreate THEN {"ok", "create failed", "mount failed"}
              ELSE {"create failed"}) :
       CASE r = "create failed" ->
              /\ Panic(IF canCreate THEN "create failed"
                       ELSE "create failed: name taken", ops)
              /\ UNCHANGED << store, todo >>
         [] r = "mount failed" /\ ent.kind = "symlink" ->
              \* no mount is made for a link (l.244, l.273): read_link failed
              /\ Panic("read_link failed", ops)
              /\ UNCHANGED << store, todo >>
         [] r = "mount failed" /\ ent.kind # "symlink" ->
              /\ Panic("mount failed", ops \cup {op})
              /\ store' = [store EXCEPT ![at] =
                             [kind |-> ent.kind, from |-> "-", of |-> "-",
                              target |-> "-"]]
              /\ UNCHANGED todo
         [] OTHER ->
              /\ store' = Placed(store, n, src, ent)
              /\ ops' = IF ent.kind = "symlink" THEN ops ELSE ops \cup {op}
              /\ todo' = todo \ {n}
              /\ UNCHANGED << pc, exitCode, stderr, guard, mounted >>

\* l.230-254: one entry of the supplied store.
Pass1Entry(n) ==
    /\ pc = "pass1"
    /\ n \in todo
    /\ \E stat \in BOOLEAN :
          IF stat
          THEN Place(n, "D", D[n])
          ELSE /\ Panic("entry or metadata failed", ops)
               /\ UNCHANGED << store, todo >>
    /\ UNCHANGED << argc, idVars, oldRoot, newRoot, statted, bindFailed, outer,
                    D, O, storeRO >>

Pass1 == \E n \in todo : Pass1Entry(n)

\* l.255: if let Ok(iter) = fs::read_dir(tmp.path()): the stashed outer
\* store's entries; when the listing fails the second pass is left out.
ReadTmp ==
    /\ pc = "pass1"
    /\ todo = {}
    /\ \E ok \in BOOLEAN :
          IF ok
          THEN /\ pc' = "pass2"
               /\ \E o \in StoreDirs :
                     /\ Cardinality(Present(D)) + Cardinality(Present(o))
                           <= MaxStoreEntries
                     /\ O' = o
                     /\ todo' = Present(o)
          ELSE /\ pc' = "remount_ro"
               /\ UNCHANGED << O, todo >>
    /\ UNCHANGED << argc, exitCode, stderr, guard, mounted, ops, idVars,
                    oldRoot, newRoot, statted, bindFailed, outer, D, store,
                    storeRO >>

\* l.260: if path.exists() { continue }
SkipExisting(n) == PathExists(store, n)

\* l.256-283: one entry of the stashed outer store.
Pass2Entry(n) ==
    /\ pc = "pass2"
    /\ n \in todo
    /\ IF SkipExisting(n)
       THEN /\ todo' = todo \ {n}
            /\ UNCHANGED << pc, exitCode, stderr, guard, mounted, ops, store >>
       ELSE \E stat \in BOOLEAN :
               IF stat
               THEN Place(n, "O", O[n])
               ELSE /\ Panic("entry or metadata failed", ops)
                    /\ UNCHANGED << store, todo >>
    /\ UNCHANGED << argc, idVars, oldRoot, newRoot, statted, bindFailed, outer,
                    D, O, storeRO >>

Pass2 == \E n \in todo : Pass2Entry(n)

\* l.289: the flags of the remount.
RemountFlags == {"MS_REMOUNT", "MS_RDONLY"}

\* The entry bind-mounted at /nix/store/n is a mount of its own (l.245,
\* l.274): it is read-only only when the remount reaches the mounts beneath
\* the store path.
EntryRO(n) == storeRO /\ "MS_REC" \in RemountFlags

\* The remount leaves the mount writable.
RemountKeepsRW == FALSE

\* l.289: MsFlags::MS_REMOUNT | MsFlags::MS_RDONLY
RemountSetsRO == TRUE

\* l.285-292: mount(none, "/nix/store", MS_REMOUNT | MS_RDONLY).unwrap()
RemountRO ==
    /\ \/ pc = "pass2" /\ todo = {}
       \/ pc = "remount_ro"
    /\ \E ok \in BOOLEAN :
          IF ok
          THEN /\ pc' = "drop_tmp"
               /\ ops' = ops \cup {Op("mount", "/nix/store")}
               /\ storeRO' = RemountSetsRO
               /\ UNCHANGED << exitCode, stderr, guard, mounted >>
          ELSE /\ Panic("mount failed", ops \cup {Op("mount", "/nix/store")})
               /\ UNCHANGED storeRO
    /\ UNCHANGED << argc, idVars, oldRoot, newRoot, statted, bindFailed, todo,
                    outer, D, O, store >>

\* l.293: tmp goes out of scope at the end of the block.
DropTmp ==
    /\ pc = "drop_tmp"
    /\ DropGuard("tmp", ops, stderr, FALSE)
    /\ pc' = IF exitCode' = NoCode THEN "restore_cwd" ELSE "done"
    /\ UNCHANGED << argc, idVars, fsVars >>

(***************************************************************************)
(* Store reconciliation, no outer store (l.293-311)                        *)
(***************************************************************************)
\* l.294-301: mount(none, "/nix", tmpfs, "mode=0755").unwrap()
NixTmpfs ==
    /\ MountCall("nix_tmpfs", "mkdir_store", "/nix")
    /\ UNCHANGED << argc, idVars, fsVars >>

\* l.302: fs::create_dir_all("/nix/store").unwrap()
MkdirStore ==
    /\ Call("mkdir_store", "bind_store", "create_dir_all failed")
    /\ UNCHANGED << argc, idVars, fsVars >>

\* The store path is left the empty directory made at l.302.
ShowsNothing(d) == [n \in StoreNames |-> NoStoreEnt]

\* What /nix/store shows once the directory d is bind-mounted on it (l.303):
\* every entry of d, of whatever kind, under its own name.
BindOf(d) ==
    [n \in StoreNames |->
        IF d[n].kind = "absent" THEN NoStoreEnt
        ELSE [kind |-> d[n].kind, from |-> "D", of |-> n,
              target |-> d[n].target]]

\* l.303-310: mount(nixdir, "/nix/store", MS_BIND | MS_REC).unwrap(): the
\* store path shows the supplied directory itself.
BindStore ==
    /\ pc = "bind_store"
    /\ \E ok \in BOOLEAN :
          IF ok
          THEN /\ pc' = "restore_cwd"
               /\ ops' = ops \cup {Op("mount", "/nix/store")}
               /\ mounted' = mounted \cup {"/nix/store"}
               /\ \E d \in StoreDirs :
                     /\ Cardinality(Present(d)) <= MaxStoreEntries
                     /\ D' = d
                     /\ store' = BindOf(d)
               /\ UNCHANGED << exitCode, stderr, guard >>
          ELSE /\ Panic("mount failed", ops \cup {Op("mount", "/nix/store")})
               /\ UNCHANGED << D, store >>
    /\ UNCHANGED << argc, idVars, oldRoot, newRoot, statted, bindFailed, todo,
                    outer, O, storeRO >>

(***************************************************************************)
(* Launch (l.313-320)                                                      *)
(***************************************************************************)
\* A restore whose failure is ignored.
RestoreCwdIgnoresFailure ==
    /\ pc = "restore_cwd"
    /\ pc' = "exec"
    /\ \E ok \in BOOLEAN : cwd' = IF ok THEN "saved" ELSE cwd
    /\ UNCHANGED << argc, exitCode, stderr, guard, mounted, ops, unshared,
                    procWrites, cwdSaved, fsVars >>

\* l.314-315: env::set_current_dir(&cwd) or panic
RestoreCwd ==
    /\ pc = "restore_cwd"
    /\ \E ok \in BOOLEAN :
          IF ok
          THEN /\ pc' = "exec"
               /\ cwd' = "saved"
               /\ UNCHANGED << exitCode, stderr, guard, mounted, ops >>
          ELSE /\ Panic("cannot restore working directory", ops)
               /\ UNCHANGED cwd
    /\ UNCHANGED << argc, unshared, procWrites, cwdSaved, fsVars >>

\* An exec whose error is unwrapped instead of reported.
ExecPanics ==
    /\ pc = "exec"
    /\ \E ok \in BOOLEAN :
          IF ok
          THEN /\ pc' = "replaced"
               /\ UNCHANGED << exitCode, stderr, guard, mounted, ops >>
          ELSE Panic("failed to execute", ops)
    /\ UNCHANGED << argc, idVars, fsVars >>

\* l.317-320: Command::new(cmd).args(args).exec(); on return the error is
\* printed and the process exits with status 1.
Exec ==
    /\ pc = "exec"
    /\ \E ok \in BOOLEAN :
          IF ok
          THEN /\ pc' = "replaced"
               /\ UNCHANGED << exitCode, stderr >>
          ELSE /\ pc' = "done"
               /\ stderr' = stderr \cup {"failed to execute"}
               /\ exitCode' = ExitFailure
    /\ UNCHANGED << argc, guard, mounted, ops, idVars, fsVars >>

Next ==
    \/ Main \/ Canonicalize \/ TempdirNew \/ CurrentDir \/ Unshare
    \/ Setgroups \/ UidMap \/ GidMap \/ BindRoot \/ PrivateRoot \/ MountTmpfs
    \/ SetPermissions \/ MkdirNix \/ PivotRoot \/ DefuseTempdir \/ ChdirRoot
    \/ ReadDir \/ Mirror \/ DropTempdir \/ CheckOuter
    \/ TmpNew \/ BindNixNix \/ Stash \/ StoreTmpfs \/ ReadNixdir \/ Pass1
    \/ ReadTmp \/ Pass2 \/ RemountRO \/ DropTmp
    \/ NixTmpfs \/ MkdirStore \/ BindStore \/ RestoreCwd \/ Exec

Spec == Init /\ [][Next]_vars

(***************************************************************************)
(* Properties                                                              *)
(***************************************************************************)
Ended == pc \in {"done", "replaced"}

\* /nix/store/n shows the entry n of the directory dir, which is store src.
StoreShows(n, src, dir) ==
    store[n] = [kind |-> dir[n].kind, from |-> src, of |-> n,
                target |-> dir[n].target]

\* C1: with an outer store, once reconciliation has completed (the read-only
\* remount was made), the names under /nix/store are the names of O and of D
\* together, a name of D shows D's entry and a name only in O shows O's entry,
\* for entries of every kind.
C1_MergeIsUnion ==
    (outer /\ pc = "drop_tmp") =>
        \A n \in StoreNames :
            /\ ExistsNoFollow(store, n) <=> n \in Present(D) \cup Present(O)
            /\ n \in Present(D) => StoreShows(n, "D", D)
            /\ n \in Present(O) \ Present(D) => StoreShows(n, "O", O)

\* C2 as stated: whenever exec is reached the mount at /nix/store is
\* read-only, with and without an outer store.
C2_ReadOnlyAtExec == pc = "exec" => storeRO

\* C2 amended: whenever exec is reached, the mount at /nix/store is read-only
\* if an outer store existed; if none existed it is the bind mount of the
\* supplied directory, which was not made read-only.
C2_ReadOnlyAtExecOuter ==
    pc \in {"exec", "replaced"} =>
        /\ "/nix/store" \in mounted
        /\ outer => storeRO
        /\ ~outer => ~storeRO /\ \A n \in StoreNames :
                                    \/ StoreShows(n, "D", D)
                                    \/ n \notin Present(D) /\ store[n] = NoStoreEnt

C2_Witness == pc = "exec" /\ outer /\ storeRO /\ Present(D) # {}

\* C3: a guard on which defuse was never called attempts exactly one umount of
\* its path, in the step that drops it, and none before; a guard defused
\* before its drop attempts none; every execution that ends, normally or by a
\* panic, has dropped the guards it created.
C3_UmountOnceUnlessDefused ==
    \A g \in GuardNames :
        /\ guard[g].state # "dropped" => guard[g].umounts = 0
        /\ (guard[g].state = "dropped" /\ ~guard[g].defused)
              => guard[g].umounts = 1
        /\ guard[g].defused => guard[g].umounts = 0
        /\ Ended => guard[g].state # "live"
        /\ guard[g].umounts =
              Cardinality({o \in ops : o.op = "umount"
                                       /\ o.target = GuardPath(g)})

C3_Witness ==
    /\ pc = "restore_cwd"
    /\ guard["tempdir"] = [state |-> "dropped", defused |-> TRUE, umounts |-> 0]
    /\ guard["tmp"] = [state |-> "dropped", defused |-> FALSE, umounts |-> 1]

\* C4: a guard that is alive and not defused guards a path that is a mount
\* point, and every umount a guard issues targets a mounted path.
C4_LiveGuardIsMounted ==
    /\ \A g \in GuardNames :
          (guard[g].state = "live" /\ ~guard[g].defused)
              => GuardPath(g) \in mounted
    /\ \A o \in ops : o.op = "umount" => o.onMount

\* C5: when a bind mount of tree mirroring has failed the process has
\* terminated: no further entry is mirrored, reconciliation does not start and
\* nothing is exec'ed.
C5_BindFailureTerminates == bindFailed => pc = "done"

\* C6: every mount, umount and pivot_root the program attempts is attempted
\* after unshare has succeeded.
C6_MountOpsAfterUnshare == \A o \in ops : o.unshared

\* C7: when store reconciliation is reached, every old-root entry other than
\* nix that is a directory or a regular file has a bind mount of itself at its
\* name in the new root, every symbolic link has a link with the same target,
\* entries of other kinds have nothing, and the new root holds nothing else
\* but the relocation mount point.
C7_MirrorPostcondition ==
    pc = "check_outer" =>
        /\ newRoot["nix"] = [kind |-> "dir", bind |-> FALSE, target |-> "-",
                             by |-> "pivot"]
        /\ \A e \in RootNames \ {"nix"} :
              CASE oldRoot[e].kind \in {"dir", "file"} ->
                     newRoot[e] = [kind |-> oldRoot[e].kind, bind |-> TRUE,
                                   target |-> "-", by |-> "mirror"]
                [] oldRoot[e].kind = "symlink" ->
                     newRoot[e] = [kind |-> "symlink", bind |-> FALSE,
                                   target |-> oldRoot[e].target,
                                   by |-> "mirror"]
                [] OTHER -> newRoot[e] = NoRootEnt

\* C8: whatever the old root holds, mirroring makes nothing at /nix for the
\* old-root entry named nix: that entry is never stat'ed, the new root's nix is
\* never an entry made by mirroring, and up to the end of mirroring nothing is
\* mounted on /nix.
C8_NixNeverMirrored ==
    /\ "nix" \notin statted
    /\ newRoot["nix"].by # "mirror"
    /\ ~newRoot["nix"].bind
    /\ pc \in {"mirror", "check_outer"} =>
          \A o \in ops : ~(o.op = "mount" /\ o.target = "/nix")

C8_Witness ==
    /\ pc = "check_outer"
    /\ oldRoot["nix"].kind = "dir"
    /\ oldRoot["bin"].kind = "dir"
    /\ newRoot["bin"].bind

\* C9: when the store-source path does not resolve, the process ends with the
\* path-resolution diagnostic and exit status 1, before unshare and before any
\* mount operation.
C9_UnresolvableExitsOne ==
    "failed to resolve nix directory" \in stderr =>
        /\ pc = "done"
        /\ exitCode = ExitFailure
        /\ ~unshared
        /\ ops = {}

\* C10: with fewer than 2 arguments after the binary name the process prints
\* usage and exits with status 1; it never unshares, attempts no mount, umount
\* or pivot_root and creates no guard.
C10_UsageExit ==
    argc \in {1, 2} =>
        /\ pc \in {"main", "done"}
        /\ pc = "done" => exitCode = ExitFailure /\ stderr = {"usage"}
        /\ ~unshared
        /\ ops = {}
        /\ \A g \in GuardNames : guard[g] = NoGuard

C10_Witness == argc = 2 /\ pc = "done" /\ exitCode = ExitFailure

\* A write to a /proc/self file that succeeded.
Written(file) == \E i \in DOMAIN procWrites :
                    procWrites[i].file = file /\ procWrites[i].ok

\* C11: when exec has failed the failure is on stderr and the exit status is
\* 1, and every setup stage has completed before: the namespace was entered
\* and both maps written, pivot_root succeeded, every old-root entry but nix
\* was visited by the mirror, the store path is mounted (read-only after both
\* passes when an outer store exists), the working directory was restored, and
\* no guard is alive: the first was defused and dropped, the second, if it was
\* made, has unmounted the stash.
C11_ExecFailureAfterSetup ==
    "failed to execute" \in stderr =>
        /\ pc = "done"
        /\ exitCode = ExitFailure
        /\ unshared /\ Written("uid_map") /\ Written("gid_map")
        /\ \E o \in ops : o.op = "pivot_root"
        /\ "/nix" \in mounted
        /\ statted = Present(oldRoot) \ {"nix"}
        /\ "/nix/store" \in mounted
        /\ todo = {}
        /\ outer => storeRO
        /\ cwd = "saved"
        /\ guard["tempdir"] =
              [state |-> "dropped", defused |-> TRUE, umounts |-> 0]
        /\ guard["tmp"] = IF outer
                          THEN [state |-> "dropped", defused |-> FALSE,
                                umounts |-> 1]
                          ELSE NoGuard
        /\ "rootdir" \notin mounted /\ "tmp" \notin mounted

C11_Witness ==
    /\ "failed to execute" \in stderr
    /\ outer
    /\ Present(oldRoot) = RootNames
    /\ Present(D) # {} /\ Present(O) # {}

\* C12: when no outer store exists, once the store path is mounted it holds
\* exactly the top-level names of the supplied directory D, each being D's own
\* entry of that name (kind and link target included), nothing of an outer
\* store, and the store's parent /nix was mounted afresh before.
C12_NoOuterStoreIsD ==
    (~outer /\ "/nix/store" \in mounted) =>
        /\ \E o \in ops : o.op = "mount" /\ o.target = "/nix"
        /\ Present(O) = {}
        /\ \A n \in StoreNames :
              /\ ExistsNoFollow(store, n) <=> n \in Present(D)
              /\ n \in Present(D) =>
                    /\ store[n].kind = D[n].kind
                    /\ store[n].target = D[n].target
                    /\ store[n].from = "D"
                    /\ store[n].of = n

C12_Witness ==
    /\ pc = "exec"
    /\ ~outer
    /\ Present(D) = StoreNames
    /\ \E n \in StoreNames : D[n].kind = "other"

\* The supplied store provides the name: it holds a directory, a regular file
\* or a symbolic link of that name.
Provided(n) == D[n].kind \in {"dir", "file", "symlink"}

\* C13: in the outer-store case no placeholder creation fails because the
\* name is taken, and nothing in the store path comes from a stashed outer
\* entry whose name the supplied store provided.
C13_NoCollision ==
    /\ "create failed: name taken" \notin stderr
    /\ \A x \in StoreNames : store[x].from = "O" => ~Provided(store[x].of)

\* C14: once pivot_root has succeeded no umount of the temporary root's path
\* is ever attempted, whatever fails later: right after the pivot the guard is
\* alive and the process still running, from the next step on the guard is
\* defused, and its drop, explicit or by unwinding, issues no umount.
C14_NoUmountAfterPivot ==
    "/nix" \in mounted =>
        /\ guard["tempdir"].umounts = 0
        /\ \A o \in ops : ~(o.op = "umount" /\ o.target = "rootdir")
        /\ pc = "defuse" => Running /\ guard["tempdir"] = WrapUmountNew
        /\ pc # "defuse" => guard["tempdir"].defused
        /\ pc \notin {"defuse", "chdir_root", "read_dir", "mirror"}
              => guard["tempdir"].state = "dropped"

\* A failure after the pivot while the guard is still in scope.
C14_Witness ==
    /\ "/nix" \in mounted
    /\ "cannot change directory to /" \in stderr
    /\ guard["tempdir"].state = "dropped"

\* C15 as stated: when the process has ended neither the tmpfs on the
\* temporary root nor the stash of the outer store is mounted, and the stash
\* is unmounted before exec.
C15_GuardedMountsGone ==
    /\ Ended => "rootdir" \notin mounted /\ "tmp" \notin mounted
    /\ pc = "exec" => "tmp" \notin mounted

\* C15 amended: while the process runs, a guarded mount has its guard alive
\* and not defused; when the process has ended with a guarded mount still in
\* place, the guard was dropped, its one umount was attempted and failed, and
\* the process ended by that failure (abort when it happened during the
\* unwinding of a panic, panic when it happened at the end of the store
\* block); the launch steps are reached with no guarded mount left.
C15_UmountAttemptedBeforeEnd ==
    /\ ("rootdir" \in mounted /\ ~Ended) => guard["tempdir"] = WrapUmountNew
    /\ ("tmp" \in mounted /\ ~Ended) => guard["tmp"] = WrapUmountNew
    /\ ("rootdir" \in mounted /\ Ended) =>
          /\ guard["tempdir"] =
                [state |-> "dropped", defused |-> FALSE, umounts |-> 1]
          /\ "umount failed" \in stderr
          /\ exitCode = AbortExit
    /\ ("tmp" \in mounted /\ Ended) =>
          /\ guard["tmp"] =
                [state |-> "dropped", defused |-> FALSE, umounts |-> 1]
          /\ "umount failed" \in stderr
          /\ exitCode \in {AbortExit, PanicExit}
    /\ pc \in {"restore_cwd", "exec", "replaced"} =>
          "rootdir" \notin mounted /\ "tmp" \notin mounted

\* A step of reconciliation failed after the stash and the stash is gone.
C15_Witness ==
    /\ pc = "done"
    /\ exitCode = PanicExit
    /\ "create failed" \in stderr
    /\ \E o \in ops : o.op = "mount" /\ o.target = "tmp"
    /\ guard["tmp"].umounts = 1
    /\ "tmp" \notin mounted

\* The place of a /proc/self file in the order of l.136-150.
Rank(file) == CASE file = "setgroups" -> 1
                [] file = "uid_map" -> 2
                [] file = "gid_map" -> 3

\* C16: every write to a /proc/self file happens after unshare succeeded; the
\* writes come in the order setgroups, uid_map, gid_map, each file at most
\* once; deny goes to setgroups and one identity range of size 1 over the
\* process's uid (gid) to uid_map (gid_map); only the last write can be one
\* that failed, unless it is the tolerated write to setgroups; and past the
\* stage each map has received its one write.
C16_NamespaceEntryOrder ==
    /\ procWrites # << >> => unshared
    /\ \A i, j \in DOMAIN procWrites :
          i < j => Rank(procWrites[i].file) < Rank(procWrites[j].file)
    /\ \A i \in DOMAIN procWrites :
          /\ procWrites[i].data =
                CASE procWrites[i].file = "setgroups" -> "deny"
                  [] procWrites[i].file = "uid_map" -> << "uid", "uid", 1 >>
                  [] procWrites[i].file = "gid_map" -> << "gid", "gid", 1 >>
          /\ i < Len(procWrites) =>
                procWrites[i].ok \/ procWrites[i].file = "setgroups"
    /\ pc \notin {"main", "canonicalize", "tempdir_new", "current_dir",
                  "unshare", "setgroups", "uid_map", "done"}
          => Written("uid_map")
    /\ pc \notin {"main", "canonicalize", "tempdir_new", "current_dir",
                  "unshare", "setgroups", "uid_map", "gid_map", "done"}
          => Written("gid_map")

C16_Witness ==
    /\ pc = "bind_root"
    /\ Len(procWrites) = 3
    /\ ~procWrites[1].ok

\* A write to a /proc/self file was attempted: the file was opened and
\* written, or its open failed with the diagnostic of the maps.
MapAttempted(file) ==
    \/ \E i \in DOMAIN procWrites : procWrites[i].file = file
    \/ "failed to open map" \in stderr

\* C17: whatever happened to the setgroups file, the process is running when
\* the uid map is next, and a process that ended after unshare had attempted
\* the uid map; a failed open or write of a map ends the process by a panic
\* with no pivot_root attempted, nothing mirrored, the store path untouched
\* and no exec.
C17_SetgroupsToleratedMapsFatal ==
    /\ pc = "uid_map" => Running
    /\ (unshared /\ pc \notin {"setgroups", "uid_map"}) =>
          MapAttempted("uid_map")
    /\ (unshared /\ pc \notin {"setgroups", "uid_map", "gid_map"}) =>
          (Written("uid_map") => MapAttempted("gid_map"))
    /\ ("failed to open map" \in stderr \/ "failed to write map" \in stderr) =>
          /\ pc = "done"
          /\ exitCode \in {PanicExit, AbortExit}
          /\ ~Written("gid_map")
          /\ \A o \in ops : o.op # "pivot_root" /\ o.op # "mount"
          /\ statted = {}
          /\ newRoot = [n \in RootNames |-> NoRootEnt]
          /\ store = [n \in StoreNames |-> NoStoreEnt]
          /\ "failed to execute" \notin stderr

\* The open of setgroups failed, the uid map was written and the write of
\* the gid map failed.
C17_Witness ==
    /\ "failed to write map" \in stderr
    /\ Len(procWrites) = 2
    /\ procWrites[1].file = "uid_map"
    /\ procWrites[2].file = "gid_map"

\* Both passes of l.230-284 run over the names of S in one fixed order, every
\* system call succeeding that can: the entries of dir are placed into r.st
\* one by one, an entry of the outer store is left out when its path exists,
\* and the run stops at the first placeholder that cannot be made.
RECURSIVE PassOver(_, _, _, _)
PassOver(r, S, src, dir) ==
    IF S = {} \/ ~r.ok THEN r
    ELSE LET n == CHOOSE x \in S : TRUE
             r1 == IF src = "O" /\ PathExists(r.st, n) THEN r
                   ELSE IF ~CanCreate(r.st, n, dir[n])
                        THEN [ok |-> FALSE, st |-> r.st]
                        ELSE [ok |-> TRUE, st |-> Placed(r.st, n, src, dir[n])]
         IN PassOver(r1, S \ {n}, src, dir)

\* The outcome of reconciling (O, D) in that order.
Reconciled ==
    PassOver(PassOver([ok |-> TRUE, st |-> [n \in StoreNames |-> NoStoreEnt]],
                      Present(D), "D", D),
             Present(O), "O", O)

\* C18: the outcome of reconciliation depends on (O, D) only: whenever both
\* passes have completed, in whatever order the entries were enumerated, the
\* store path is the one a run in a fixed order yields, and a run aborts on a
\* taken name only if the run in the fixed order aborts as well.
C18_OrderIndependent ==
    /\ pc = "drop_tmp" => Reconciled.ok /\ store = Reconciled.st
    /\ "create failed: name taken" \in stderr => ~Reconciled.ok

\* C19: the working directory is captured before the namespace is entered;
\* it is the starting one until pivot_root has succeeded, / from the step
\* after the defuse up to the restore, and the captured path whenever exec is
\* attempted; when the restore has failed the process has ended by a panic,
\* still in /, and exec was not attempted.
C19_WorkingDirectoryProtocol ==
    /\ unshared => cwdSaved
    /\ "/nix" \notin mounted => cwd = "start"
    /\ ("/nix" \in mounted /\ Running /\ pc \notin {"defuse", "chdir_root"})
          => cwd = (IF pc = "exec" THEN "saved" ELSE "/")
    /\ (pc \in {"exec", "replaced"} \/ "failed to execute" \in stderr)
          => cwd = "saved" /\ cwdSaved
    /\ "cannot restore working directory" \in stderr =>
          /\ pc = "done"
          /\ exitCode = PanicExit
          /\ cwd = "/"
          /\ "failed to execute" \notin stderr

C19_Witness ==
    /\ pc = "replaced"
    /\ cwd = "saved"
    /\ Present(oldRoot) # {}

\* C20: in the outer-store case, once the read-only remount has been made
\* both passes are complete, the store path is read-only and so is every
\* entry bind-mounted beneath it.
C20_RemountLastAndRecursive ==
    pc = "drop_tmp" =>
        /\ todo = {}
        /\ storeRO
        /\ \A n \in StoreNames :
              store[n].kind \in {"dir", "file"} => EntryRO(n)

====
